---- MODULE Spec2Model ----
(***************************************************************************)
(* Order batching for warehouse picking (src/batch_optimization.py).       *)
(* A Solver holds the order/aisle incidence, the batch size K and the      *)
(* batch count B; its strategies peel batches off a local copy of the      *)
(* order list.  Order ids are the integers 1..n in input (dict) order,     *)
(* aisles are the strings of Aisles.  The optimisation engine is modelled  *)
(* by what "solve to optimality" means: any feasible assignment of the     *)
(* declared variables whose objective no feasible assignment beats.        *)
(***************************************************************************)
EXTENDS Integers, Sequences, FiniteSets, TLC

\* ---------------------------------------------------------------- bounds
MaxOrders == 3          \* orders of an instance under SpecGreedy and SpecCall
MaxSmallOrders == 2     \* orders of an instance under Spec and SpecMIP
MaxK == 3               \* max_batch_size ranges over 1..MaxK
Aisles == {"a1", "a2", "a3"}

\* The literal batch size of the two exact-single-batch greedy variants.
SingleBatchSize == 14

NoSeed == 0             \* seed = None
NoCall == [pool |-> <<>>, batch_size |-> 0, seed |-> NoSeed,
           status |-> "none", batch |-> <<>>, objVal |-> 0]
NoResult == [by |-> "none", raised |-> "", value |-> <<>>]
NoMip == [solved |-> FALSE, batches |-> <<>>, d |-> <<>>, objVal |-> 0]
NoScore == [batches |-> <<>>, total |-> -1]

VARIABLES
    order_ids,      \* self.order_ids: list of order ids
    order_aisles,   \* self.order_aisles: order id -> set of aisles
    aisles,         \* self.aisles: the aisles some order touches
    aisles_orders,  \* self.aisles_orders: aisle -> list of order ids
    K,              \* self.K
    B,              \* self.B
    pc,             \* position of the running strategy, "idle" between calls
    pool,           \* the local order_ids of the running strategy
    batches,        \* the local batches
    batch,          \* the local batch under construction
    batch_aisles,   \* the local batch_aisles of greedy_batches
    head,           \* order_ids[0] as read when greedy_batches starts a batch
    call,           \* the latest MIP_single_batch invocation and its outcome
    result,         \* what the latest strategy returned (or raised)
    mip,            \* the latest solved Full Exact Model
    score           \* the latest value returned by check_num_aisles

self == <<order_ids, order_aisles, aisles, aisles_orders, K, B>>
locals == <<pool, batches, batch, batch_aisles, head>>
vars == <<order_ids, order_aisles, aisles, aisles_orders, K, B, pc, pool,
          batches, batch, batch_aisles, head, call, result, mip, score>>

\* ---------------------------------------------------------------- helpers
Range(s) == {s[i] : i \in 1..Len(s)}

Min2(a, b) == IF a < b THEN a ELSE b

\* math.ceil(n / k) for positive k
CeilDiv(n, k) == (n + k - 1) \div k

RECURSIVE SumSet(_, _)
SumSet(S, f) ==
    IF S = {} THEN 0
    ELSE LET e == CHOOSE e \in S : TRUE IN f[e] + SumSet(S \ {e}, f)

RECURSIVE SumSeq(_)
SumSeq(s) == IF s = <<>> THEN 0 ELSE Head(s) + SumSeq(Tail(s))

\* list.remove(e): drops the first occurrence of e
RECURSIVE ListRemove(_, _)
ListRemove(s, e) ==
    IF s = <<>> THEN <<>>
    ELSE IF Head(s) = e THEN Tail(s)
    ELSE <<Head(s)>> \o ListRemove(Tail(s), e)

\* for o in batch: order_ids.remove(o)
RECURSIVE RemoveAll(_, _)
RemoveAll(s, bt) ==
    IF bt = <<>> THEN s ELSE RemoveAll(ListRemove(s, Head(bt)), Tail(bt))

num_aisles(o) == Cardinality(order_aisles[o])

\* list.sort(reverse = True, key = self.num_aisles): stable, descending.
\* InsertDesc puts o after every element whose key is >= its own.
RECURSIVE InsertDesc(_, _)
InsertDesc(s, o) ==
    IF s = <<>> THEN <<o>>
    ELSE IF num_aisles(Head(s)) >= num_aisles(o)
         THEN <<Head(s)>> \o InsertDesc(Tail(s), o)
         ELSE <<o>> \o s

RECURSIVE SortDesc(_)
SortDesc(s) ==
    IF s = <<>> THEN <<>>
    ELSE InsertDesc(SortDesc(SubSeq(s, 1, Len(s) - 1)), s[Len(s)])

\* the set of aisles the orders of a batch touch
BatchAisles(bt) == UNION {order_aisles[bt[i]] : i \in 1..Len(bt)}

check_num_aisles(bs) ==
    SumSeq([i \in 1..Len(bs) |-> Cardinality(BatchAisles(bs[i]))])

\* ---------------------------------------------------------------- __init__
AislesOrdersOf(ids, oa, a) == SelectSeq(ids, LAMBDA o : a \in oa[o])

SolverInit(ids, oa, max_batch_size) ==
    /\ order_ids = ids
    /\ order_aisles = oa
    /\ aisles = UNION {oa[ids[i]] : i \in 1..Len(ids)}
    /\ aisles_orders =
           [a \in UNION {oa[ids[i]] : i \in 1..Len(ids)} |-> AislesOrdersOf(ids, oa, a)]
    /\ K = max_batch_size
    /\ B = CeilDiv(Len(ids), max_batch_size)

Idle ==
    /\ pc = "idle"
    /\ pool = <<>>
    /\ batches = <<>>
    /\ batch = <<>>
    /\ batch_aisles = {}
    /\ head = NoSeed
    /\ call = NoCall
    /\ result = NoResult
    /\ mip = NoMip
    /\ score = NoScore

\* every order has at least one item, hence a non-empty aisle set
InitWith(maxn, ks) ==
    \E n \in 1..maxn, k \in ks :
        \E oa \in [1..n -> (SUBSET Aisles) \ {{}}] :
            /\ SolverInit([i \in 1..n |-> i], oa, k)
            /\ Idle

Init == InitWith(MaxSmallOrders, 1..MaxK)

\* The caller holds what the latest heuristic call returned (pc = "returned")
\* until it drops it; a strategy starts from "idle".  An exact solution is
\* held in mip until the caller drops it.
Return(name, value) ==
    /\ pc' = "returned"
    /\ result' = [by |-> name, raised |-> "", value |-> value]
    /\ pool' = <<>>
    /\ batches' = <<>>
    /\ batch' = <<>>
    /\ batch_aisles' = {}
    /\ head' = NoSeed

Raise(name, exc) ==
    /\ pc' = "returned"
    /\ result' = [by |-> name, raised |-> exc, value |-> <<>>]
    /\ pool' = <<>>
    /\ batches' = <<>>
    /\ batch' = <<>>
    /\ batch_aisles' = {}
    /\ head' = NoSeed

Drop ==
    /\ pc = "returned"
    /\ pc' = "idle"
    /\ call' = NoCall
    /\ result' = NoResult
    /\ score' = NoScore
    /\ UNCHANGED <<self, locals, mip>>

DropMip ==
    /\ pc = "idle"
    /\ mip.solved
    /\ mip' = NoMip
    /\ UNCHANGED <<self, pc, locals, call, result, score>>

\* ---------------------------------------------------------------- random_batches
\* while len(batch) < min(self.K, len(batch) + len(order_ids))
FillGuard == Len(batch) < Min2(K, Len(batch) + Len(pool))

RandomStart ==
    /\ pc = "idle"
    /\ pool' = order_ids
    /\ batches' = <<>>
    /\ pc' = "random_for"
    /\ UNCHANGED <<self, batch, batch_aisles, head, call, result, mip, score>>

RandomNewBatch ==
    /\ pc = "random_for"
    /\ Len(batches) < B
    /\ batch' = <<>>
    /\ pc' = "random_while"
    /\ UNCHANGED <<self, pool, batches, batch_aisles, head, call, result, mip, score>>

RandomPick ==
    /\ pc = "random_while"
    /\ FillGuard
    /\ \E i \in 1..Len(pool) :      \* random.choice(order_ids)
           /\ batch' = Append(batch, pool[i])
           /\ pool' = ListRemove(pool, pool[i])
    /\ UNCHANGED <<self, pc, batches, batch_aisles, head, call, result, mip, score>>

RandomAppend ==
    /\ pc = "random_while"
    /\ ~FillGuard
    /\ batches' = Append(batches, batch)
    /\ pc' = "random_for"
    /\ UNCHANGED <<self, pool, batch, batch_aisles, head, call, result, mip, score>>

RandomReturn ==
    /\ pc = "random_for"
    /\ Len(batches) >= B
    /\ Return("random_batches", batches)
    /\ UNCHANGED <<self, call, mip, score>>

NextRandom ==
    RandomStart \/ RandomNewBatch \/ RandomPick \/ RandomAppend \/ RandomReturn

\* ---------------------------------------------------------------- greedy_batches
Inf == Cardinality(Aisles) + 1      \* math.inf: above every aisle count
NoBest == [order |-> NoSeed, aisles |-> {}, num |-> Inf]

\* the scan with <= for <: among equal counts the last order scanned wins
RECURSIVE ScanLastWins(_, _, _)
ScanLastWins(rest, ba, best) ==
    IF rest = <<>> THEN best
    ELSE LET o == Head(rest)
             num_new_aisles == Cardinality(order_aisles[o] \ ba)
             best1 == IF num_new_aisles <= best.num
                      THEN [order |-> o, aisles |-> order_aisles[o],
                            num |-> num_new_aisles]
                      ELSE best
         IN  IF num_new_aisles = 0 THEN best1
             ELSE ScanLastWins(Tail(rest), ba, best1)

\* for o in order_ids: the scan of lines 169-176, from the state `best`
RECURSIVE Scan(_, _, _)
Scan(rest, ba, best) ==
    IF rest = <<>> THEN best
    ELSE LET o == Head(rest)
             num_new_aisles == Cardinality(order_aisles[o] \ ba)
             best1 == IF num_new_aisles < best.num
                      THEN [order |-> o, aisles |-> order_aisles[o],
                            num |-> num_new_aisles]
                      ELSE best
         IN  IF num_new_aisles = 0 THEN best1
             ELSE Scan(Tail(rest), ba, best1)

GreedyStart ==
    /\ pc = "idle"
    /\ pool' = SortDesc(order_ids)
    /\ batches' = <<>>
    /\ pc' = "greedy_for"
    /\ UNCHANGED <<self, batch, batch_aisles, head, call, result, mip, score>>

\* the seeding without line 163: the head stays in the batch
GreedySeedKept ==
    /\ pc = "greedy_for"
    /\ Len(batches) < B
    /\ pool # <<>>
    /\ batch_aisles' = order_aisles[pool[1]]
    /\ batch' = Append(<<>>, pool[1])
    /\ head' = pool[1]
    /\ pc' = "greedy_while"
    /\ UNCHANGED <<self, pool, batches, call, result, mip, score>>

\* lines 159-163: the head's aisles seed batch_aisles; the head is appended
\* to the batch and removed from the batch again
GreedySeed ==
    /\ pc = "greedy_for"
    /\ Len(batches) < B
    /\ IF pool = <<>>
       THEN /\ Raise("greedy_batches", "IndexError")
            /\ UNCHANGED <<self, call, mip, score>>
       ELSE /\ batch_aisles' = order_aisles[pool[1]]
            /\ batch' = ListRemove(Append(<<>>, pool[1]), pool[1])
            /\ head' = pool[1]
            /\ pc' = "greedy_while"
            /\ UNCHANGED <<self, pool, batches, call, result, mip, score>>

\* the while loop without the copy of line 154: it consumes self.order_ids
GreedyPickAliased ==
    /\ pc = "greedy_while"
    /\ FillGuard
    /\ LET best == Scan(pool, batch_aisles, NoBest) IN
           /\ batch' = Append(batch, best.order)
           /\ batch_aisles' = batch_aisles \cup best.aisles
           /\ pool' = ListRemove(pool, best.order)
           /\ order_ids' = ListRemove(order_ids, best.order)
    /\ UNCHANGED <<order_aisles, aisles, aisles_orders, K, B, pc, batches, head,
                   call, result, mip, score>>

\* lines 164-179: one turn of the while loop
GreedyPick ==
    /\ pc = "greedy_while"
    /\ FillGuard
    /\ LET best == Scan(pool, batch_aisles, NoBest) IN
           /\ batch' = Append(batch, best.order)
           /\ batch_aisles' = batch_aisles \cup best.aisles
           /\ pool' = ListRemove(pool, best.order)
    /\ UNCHANGED <<self, pc, batches, head, call, result, mip, score>>

GreedyAppend ==
    /\ pc = "greedy_while"
    /\ ~FillGuard
    /\ batches' = Append(batches, batch)
    /\ pc' = "greedy_for"
    /\ UNCHANGED <<self, pool, batch, batch_aisles, head, call, result, mip, score>>

GreedyReturn ==
    /\ pc = "greedy_for"
    /\ Len(batches) >= B
    /\ Return("greedy_batches", batches)
    /\ UNCHANGED <<self, call, mip, score>>

NextGreedy ==
    GreedyStart \/ GreedySeed \/ GreedyPick \/ GreedyAppend \/ GreedyReturn

\* ---------------------------------------------------------------- MIP_single_batch
\* line 108: the aisles of the orders of the pool
SB_Aisles(p) == UNION {order_aisles[o] : o \in Range(p)}

\* x[o]: the binary assignments that satisfy the seed constraint (line 118)
\* and batch_size (line 121)
SB_X(p, batch_size, seed) ==
    {x \in [Range(p) -> {0, 1}] :
        /\ seed # NoSeed => x[seed] = 1
        /\ SumSet(Range(p), x) = batch_size}

\* batch_aisle turned round: y[a] <= x[o]
SB_YTurned(p, x) ==
    {y \in [SB_Aisles(p) -> {0, 1}] :
        \A a \in SB_Aisles(p) :
            \A i \in 1..Len(aisles_orders[a]) :
                aisles_orders[a][i] \in Range(p) => y[a] <= x[aisles_orders[a][i]]}

\* y[a]: the binary assignments that satisfy batch_aisle (line 123) for x
SB_Y(p, x) ==
    {y \in [SB_Aisles(p) -> {0, 1}] :
        \A a \in SB_Aisles(p) :
            \A i \in 1..Len(aisles_orders[a]) :
                aisles_orders[a][i] \in Range(p) => y[a] >= x[aisles_orders[a][i]]}

SB_Feasible(p, batch_size, seed) ==
    UNION {{[x |-> x, y |-> y] : y \in SB_Y(p, x)} : x \in SB_X(p, batch_size, seed)}

\* line 129: the objective
SB_Objective(p, s) == SumSet(SB_Aisles(p), s.y)

SetMin(S) == CHOOSE m \in S : \A k \in S : m <= k

\* model.optimize(): the feasible assignments of least objective
SB_Optimal(p, batch_size, seed) ==
    LET F == SB_Feasible(p, batch_size, seed) IN
    IF F = {} THEN {}
    ELSE LET m == SetMin({SB_Objective(p, s) : s \in F})
         IN  {s \in F : SB_Objective(p, s) = m}

\* lines 132-136: the orders of the pool with x[o].X != 0, in pool order
SB_Batch(p, s) == SelectSeq(p, LAMBDA o : s.x[o] # 0)

\* the outcomes of MIP_single_batch(p, batch_size, seed): one per optimal
\* assignment; reading x[o].X of an infeasible model raises
MIP_single_batch(p, batch_size, seed) ==
    LET opt == SB_Optimal(p, batch_size, seed) IN
    IF opt = {}
    THEN {[pool |-> p, batch_size |-> batch_size, seed |-> seed,
           status |-> "infeasible", batch |-> <<>>, objVal |-> 0]}
    ELSE {[pool |-> p, batch_size |-> batch_size, seed |-> seed,
           status |-> "optimal", batch |-> SB_Batch(p, s),
           objVal |-> SB_Objective(p, s)] : s \in opt}

\* ------------------------------------------- greedy_optimal_single_batching
SingleStart ==
    /\ pc = "idle"
    /\ pool' = order_ids
    /\ batches' = <<>>
    /\ pc' = "single_for"
    /\ UNCHANGED <<self, batch, batch_aisles, head, call, result, mip, score>>

\* lines 100-104: one turn of the for loop
SingleIter ==
    /\ pc = "single_for"
    /\ Len(batches) < B
    /\ \E c \in MIP_single_batch(pool, Min2(SingleBatchSize, Len(pool)), NoSeed) :
           /\ call' = c
           /\ IF c.status = "optimal"
              THEN /\ batches' = Append(batches, c.batch)
                   /\ pool' = RemoveAll(pool, c.batch)
                   /\ UNCHANGED <<pc, result, batch, batch_aisles, head>>
              ELSE Raise("greedy_optimal_single_batching", "AttributeError")
    /\ UNCHANGED <<self, mip, score>>

SingleReturn ==
    /\ pc = "single_for"
    /\ Len(batches) >= B
    /\ Return("greedy_optimal_single_batching", batches)
    /\ UNCHANGED <<self, call, mip, score>>

NextSingle == SingleStart \/ SingleIter \/ SingleReturn

\* --------------------------------- greedy_optimal_single_batching_with_seed
SeededStart ==
    /\ pc = "idle"
    /\ pool' = SortDesc(order_ids)
    /\ batches' = <<>>
    /\ pc' = "seeded_for"
    /\ UNCHANGED <<self, batch, batch_aisles, head, call, result, mip, score>>

\* lines 90-94: one turn of the for loop; order_ids[0] of an empty list raises
SeededIter ==
    /\ pc = "seeded_for"
    /\ Len(batches) < B
    /\ IF pool = <<>>
       THEN /\ Raise("greedy_optimal_single_batching_with_seed", "IndexError")
            /\ UNCHANGED call
       ELSE \E c \in MIP_single_batch(pool, Min2(SingleBatchSize, Len(pool)), pool[1]) :
           /\ call' = c
           /\ IF c.status = "optimal"
              THEN /\ batches' = Append(batches, c.batch)
                   /\ pool' = RemoveAll(pool, c.batch)
                   /\ UNCHANGED <<pc, result, batch, batch_aisles, head>>
              ELSE Raise("greedy_optimal_single_batching_with_seed", "AttributeError")
    /\ UNCHANGED <<self, mip, score>>

SeededReturn ==
    /\ pc = "seeded_for"
    /\ Len(batches) >= B
    /\ Return("greedy_optimal_single_batching_with_seed", batches)
    /\ UNCHANGED <<self, call, mip, score>>

NextSeeded == SeededStart \/ SeededIter \/ SeededReturn

\* ------------------------------------------- MIP_single_batch, called directly
SubList(s, S) == SelectSeq(s, LAMBDA o : o \in S)

\* the pools a caller passes: sub-lists of the order list, in input order
\* or in the sorted order of the seeded variant
Pools ==
    {SubList(order_ids, S) : S \in SUBSET Range(order_ids)}
        \cup {SubList(SortDesc(order_ids), S) : S \in SUBSET Range(order_ids)}

CallSingleBatch ==
    /\ pc = "idle"
    /\ \E p \in Pools :
         \E batch_size \in 0..Len(p), seed \in Range(p) \cup {NoSeed} :
            \E c \in MIP_single_batch(p, batch_size, seed) : call' = c
    /\ pc' = "returned"
    /\ UNCHANGED <<self, locals, result, mip, score>>

\* ---------------------------------------------------------------- check_num_aisles
\* the batchings the caller holds
Held ==
    (IF result.by # "none" /\ result.raised = "" THEN {result.value} ELSE {})
        \cup (IF mip.solved THEN {mip.batches} ELSE {})

\* the evaluator, applied to a batching the caller holds
CheckNumAisles ==
    /\ pc = "returned"
    /\ \E bs \in Held :
           score' = [batches |-> bs, total |-> check_num_aisles(bs)]
    /\ UNCHANGED <<self, pc, locals, call, result, mip>>

\* ---------------------------------------------------------------- MIP
BatchIdx == 0..(B - 1)      \* range(self.B)

\* x[o,b]: the binary assignments that satisfy batch_size (line 58) and
\* single_batch (line 61)
MIP_X ==
    {x \in [Range(order_ids) \X BatchIdx -> {0, 1}] :
        /\ \A b \in BatchIdx :
              SumSet(Range(order_ids), [o \in Range(order_ids) |-> x[<<o, b>>]]) <= K
        /\ \A o \in Range(order_ids) :
              SumSet(BatchIdx, [b \in BatchIdx |-> x[<<o, b>>]]) = 1}

\* batch_aisle turned round: y[b,a] <= x[o,b]
MIP_YTurned(x) ==
    {y \in [BatchIdx \X aisles -> {0, 1}] :
        \A b \in BatchIdx : \A a \in aisles :
            \A i \in 1..Len(aisles_orders[a]) :
                y[<<b, a>>] <= x[<<aisles_orders[a][i], b>>]}

\* y[b,a]: the binary assignments that satisfy batch_aisle (line 63) for x
MIP_Y(x) ==
    {y \in [BatchIdx \X aisles -> {0, 1}] :
        \A b \in BatchIdx : \A a \in aisles :
            \A i \in 1..Len(aisles_orders[a]) :
                y[<<b, a>>] >= x[<<aisles_orders[a][i], b>>]}

\* d[b] is the one integer that satisfies num_aisles (line 66)
MIP_D(y) == [b \in BatchIdx |-> SumSet(aisles, [a \in aisles |-> y[<<b, a>>]])]

MIP_Feasible ==
    UNION {{[x |-> x, y |-> y, d |-> MIP_D(y)] : y \in MIP_Y(x)} : x \in MIP_X}

\* line 68
MIP_Objective(s) == SumSet(BatchIdx, s.d)

MIP_Optimal ==
    LET F == MIP_Feasible IN
    IF F = {} THEN {}
    ELSE LET m == SetMin({MIP_Objective(s) : s \in F})
         IN  {s \in F : MIP_Objective(s) = m}

\* lines 76-82: batch k holds the orders with x[o,k].X != 0, in order_ids order
MIP_Batches(s) ==
    [k \in 1..B |-> SelectSeq(order_ids, LAMBDA o : s.x[<<o, k - 1>>] # 0)]

\* The starting values of initial_solution = True are hints: they change
\* neither the feasible set nor the objective, so not the set of optima.
MIP ==
    /\ pc = "idle"
    /\ ~mip.solved
    /\ \E initial_solution \in BOOLEAN :
         \E s \in MIP_Optimal :
            mip' = [solved |-> TRUE, batches |-> MIP_Batches(s),
                    d |-> [k \in 1..B |-> s.d[k - 1]],
                    objVal |-> MIP_Objective(s)]
    /\ UNCHANGED <<self, pc, locals, call, result, score>>

\* ---------------------------------------------------------------- specifications
Next ==
    \/ NextRandom \/ NextGreedy \/ NextSingle \/ NextSeeded
    \/ CallSingleBatch
    \/ CheckNumAisles
    \/ Drop

Spec == Init /\ [][Next]_vars

\* greedy_batches alone
NextGreedyOnly == NextGreedy \/ Drop

InitGreedy == InitWith(MaxOrders, 1..MaxK)

SpecGreedy == InitGreedy /\ [][NextGreedyOnly]_vars

\* MIP_single_batch alone; it reads neither K nor B
NextCall == CallSingleBatch \/ Drop

InitCall == InitWith(MaxOrders, {1})

SpecCall == InitCall /\ [][NextCall]_vars

\* the strategies and the Full Exact Model
InitMIP == InitWith(MaxSmallOrders, 1..MaxK)

NextMIP ==
    \/ NextRandom \/ NextGreedy \/ NextSingle \/ NextSeeded
    \/ CheckNumAisles
    \/ MIP
    \/ Drop
    \/ DropMip

SpecMIP == InitMIP /\ [][NextMIP]_vars

\* instances with more orders than the literal batch size: every order in
\* aisle a1, or all but the last
InitLarge ==
    \E k \in {SingleBatchSize + 1, SingleBatchSize + 2}, last \in {"a1", "a2"} :
        /\ SolverInit([i \in 1..(SingleBatchSize + 1) |-> i],
                      [i \in 1..(SingleBatchSize + 1) |->
                          IF i = SingleBatchSize + 1 THEN {last} ELSE {"a1"}],
                      k)
        /\ Idle

NextLarge == NextSingle \/ NextSeeded \/ Drop

SpecLarge == InitLarge /\ [][NextLarge]_vars

\* ---------------------------------------------------------------- properties
RECURSIVE Flatten(_)
Flatten(bs) == IF bs = <<>> THEN <<>> ELSE Head(bs) \o Flatten(Tail(bs))

Count(o, s) == Cardinality({i \in 1..Len(s) : s[i] = o})

Pos(o, s) == CHOOSE i \in 1..Len(s) : s[i] = o

\* a strategy has returned a batching
ReturnedOk == pc = "returned" /\ result.by # "none" /\ result.raised = ""

IsPartition(bs) ==
    /\ Range(Flatten(bs)) \subseteq Range(order_ids)
    /\ \A o \in Range(order_ids) : Count(o, Flatten(bs)) = 1

\* C1: the batches a strategy returns hold every order id exactly once.
C1_Partition ==
    /\ ReturnedOk => IsPartition(result.value)
    /\ mip.solved => IsPartition(mip.batches)

WithinCapacity(bs) ==
    /\ Len(bs) = B
    /\ \A k \in 1..Len(bs) : Len(bs[k]) <= K

\* C2: every returned batch holds at most K orders and there are B batches.
C2_Capacity ==
    /\ ReturnedOk => WithinCapacity(result.value)
    /\ mip.solved => WithinCapacity(mip.batches)

\* the least number of aisles a batch_size-subset of the pool (holding the
\* seed, when there is one) touches
Candidates(p, batch_size, seed) ==
    {S \in SUBSET Range(p) :
        Cardinality(S) = batch_size /\ (seed # NoSeed => seed \in S)}

LeastAisles(p, batch_size, seed) ==
    SetMin({Cardinality(UNION {order_aisles[o] : o \in S}) :
               S \in Candidates(p, batch_size, seed)})

SingleBatchContract(c) ==
    /\ c.status = "optimal"
    /\ Len(c.batch) = c.batch_size
    /\ \A o \in Range(c.batch) : o \in Range(c.pool) /\ Count(o, c.batch) = 1
    /\ c.seed # NoSeed => c.seed \in Range(c.batch)
    /\ Cardinality(BatchAisles(c.batch)) = LeastAisles(c.pool, c.batch_size, c.seed)
    /\ c.objVal = Cardinality(BatchAisles(c.batch))
    /\ c.batch_size = Len(c.pool) =>
          /\ c.batch = c.pool
          /\ c.objVal = check_num_aisles(<<c.pool>>)

\* C3 as stated: every call with batch_size <= |pool| and a seed that is
\* absent or in the pool returns a least-aisle batch of batch_size orders.
C3_AsStated == call.status # "none" => SingleBatchContract(call)

\* C3: every call with batch_size <= |pool| and a seed that is absent, or in
\* the pool with batch_size >= 1, returns batch_size distinct orders of the
\* pool, the seed among them, touching the least number of aisles any such
\* subset touches; for batch_size = |pool| it returns the pool.
C3_SingleBatch ==
    (call.status # "none" /\ (call.seed = NoSeed \/ call.batch_size >= 1))
        => SingleBatchContract(call)

C3_Witness ==
    /\ call.status = "optimal"
    /\ call.seed # NoSeed
    /\ Len(call.pool) = 3
    /\ call.batch_size = 2
    /\ call.objVal < Cardinality(BatchAisles(call.pool))
    /\ call.batch # SubSeq(call.pool, 1, 2)

\* C4: the evaluator total of the exact model's batching is at most that of
\* the batching any other strategy returns on the same Solver.
C4_LowerBound ==
    (mip.solved /\ ReturnedOk)
        => check_num_aisles(mip.batches) <= check_num_aisles(result.value)

\* C5: the evaluator total of the batching extracted from the solved exact
\* model equals its objective value, the sum of d[b], batch by batch.
C5_EvaluatorConsistency ==
    /\ mip.solved =>
          /\ check_num_aisles(mip.batches) = mip.objVal
          /\ mip.objVal = SumSeq(mip.d)
          /\ \A k \in 1..B : mip.d[k] = Cardinality(BatchAisles(mip.batches[k]))
    /\ (mip.solved /\ score # NoScore /\ score.batches = mip.batches)
          => score.total = mip.objVal

C5_Witness ==
    /\ mip.solved
    /\ B = 2
    /\ mip.objVal = 3
    /\ score.batches = mip.batches
    /\ score.total = 3

AllOneAisle == \E a \in Aisles : \A o \in Range(order_ids) : order_aisles[o] = {a}

\* C6: when all orders touch the same single aisle, the evaluator total of
\* a strategy's batching is B: B non-empty batches, each visiting that aisle.
C6_OneAisle ==
    (AllOneAisle /\ score # NoScore) =>
        /\ score.total = B
        /\ Len(score.batches) = B
        /\ \A k \in 1..Len(score.batches) :
              score.batches[k] # <<>> /\ Cardinality(BatchAisles(score.batches[k])) = 1

NewAisles(o) == Cardinality(order_aisles[o] \ batch_aisles)

\* the scan order of greedy_batches: descending aisle count, input order
\* among equal counts
InScanOrder(s) ==
    \A i, j \in 1..Len(s) : i < j =>
        \/ num_aisles(s[i]) > num_aisles(s[j])
        \/ num_aisles(s[i]) = num_aisles(s[j]) /\ Pos(s[i], order_ids) < Pos(s[j], order_ids)

\* C7: the order greedy_batches appends has the least number of new aisles
\* among the orders of the pool and is the first such order of the pool,
\* which is in scan order; it leaves the pool and its aisles join batch_aisles.
C7_SelectionRule ==
    [][(pc = "greedy_while" /\ pc' = "greedy_while" /\ batch' # batch) =>
          /\ InScanOrder(pool)
          /\ Len(batch') = Len(batch) + 1
          /\ SubSeq(batch', 1, Len(batch)) = batch
          /\ LET o == batch'[Len(batch')] IN
                /\ o \in Range(pool)
                /\ \A q \in Range(pool) : NewAisles(o) <= NewAisles(q)
                /\ \A i \in 1..(Pos(o, pool) - 1) : NewAisles(pool[i]) > NewAisles(o)
                /\ pool' = SubSeq(pool, 1, Pos(o, pool) - 1)
                              \o SubSeq(pool, Pos(o, pool) + 1, Len(pool))
                /\ batch_aisles' = batch_aisles \cup order_aisles[o]]_vars

\* the second order of the batch was chosen over an order that is scanned
\* before it and is still in the pool
C7_Witness ==
    /\ pc = "greedy_while"
    /\ Len(batch) = 2
    /\ pool # <<>>
    /\ Pos(batch[2], SortDesc(order_ids)) > Pos(pool[1], SortDesc(order_ids))

Scenario ==
    /\ order_ids = <<1, 2, 3>>
    /\ order_aisles = (1 :> {"a1", "a2"}) @@ (2 :> {"a2"}) @@ (3 :> {"a3"})
    /\ K = 2

\* C8: a finished batch of greedy_batches starts with the order that headed
\* the pool when the batch was started, an order of greatest aisle count
\* among those not yet batched; it occurs once in the batch and has left the
\* pool.  B batches are returned; for o1:{a1,a2}, o2:{a2}, o3:{a3} and K = 2
\* they are [o1, o2] and [o3], of evaluator total 3.
C8_Seeding ==
    /\ (pc = "greedy_while" /\ ~FillGuard) =>
          /\ batch # <<>>
          /\ batch[1] = head
          /\ Count(head, batch) = 1
          /\ head \notin Range(pool)
          /\ \A o \in Range(pool) \cup Range(batch) : num_aisles(head) >= num_aisles(o)
    /\ (pc = "returned" /\ result.by = "greedy_batches") =>
          /\ result.raised = ""
          /\ Len(result.value) = B
    /\ (Scenario /\ pc = "returned" /\ result.by = "greedy_batches") =>
          /\ result.value = <<<<1, 2>>, <<3>>>>
          /\ check_num_aisles(result.value) = 3

C8_Witness ==
    /\ Scenario
    /\ pc = "returned"
    /\ result.by = "greedy_batches"
    /\ result.value = <<<<1, 2>>, <<3>>>>

InSingleLoop == pc \in {"single_for", "seeded_for"}

\* C9: each call the two exact-single-batch variants make is on a non-empty
\* pool with batch_size = min(K, |pool|), seeded with the head of the pool in
\* the seeded variant, and is feasible; neither variant raises.
C9_FeasibleCalls ==
    /\ (InSingleLoop /\ call.status # "none") =>
          /\ call.pool # <<>>
          /\ call.batch_size = Min2(K, Len(call.pool))
          /\ call.status = "optimal"
          /\ pc = "seeded_for" => call.seed = call.pool[1]
    /\ (pc = "returned" /\ result.by \in {"greedy_optimal_single_batching",
                                          "greedy_optimal_single_batching_with_seed"})
          => result.raised = ""

\* C10: no call changes order_ids, order_aisles, aisles_orders, K or B.
C10_Frame == [][UNCHANGED self]_vars

\* a pool has been consumed, a batching returned and scored
C10_Witness ==
    /\ pc = "returned"
    /\ result.by = "greedy_batches"
    /\ Len(result.value) = 2
    /\ score.total = 2
    /\ order_ids = <<1, 2>>
====
